---- MODULE Spec2Model ----
(***************************************************************************)
(* The deploy script of flex-plugin-scripts                                *)
(* (packages/flex-plugin-scripts/src/scripts/deploy.ts): the version       *)
(* resolver `deploy`, the path collision detector `_verifyPath`, and the   *)
(* orchestrator `_doDeploy`, run against a Serverless service whose        *)
(* environment, builds and asset versions persist between invocations.     *)
(*                                                                         *)
(* JavaScript strings are TLA+ strings (TLC concatenates them with \o).    *)
(* An optional value (runtime.build, runtime.environment) is a sequence of *)
(* length 0 or 1.                                                          *)
(***************************************************************************)
EXTENDS Integers, Sequences, FiniteSets, TLC

(***************************************************************************)
(* Bounds of the model.                                                    *)
(***************************************************************************)
\* deploy invocations in one behaviour, from every build of existing records
MaxDeploys == 1
\* deploy invocations in one behaviour of a re-deployment
MaxRedeploys == 3
\* version records (asset and function versions together) of the build that
\* exists before the first invocation
MaxExisting == 2
\* largest component of a version a.b.c drawn as the current version
MaxComp == 3
\* records per list of a build handed to _verifyPath on its own
MaxRecords == 2

(***************************************************************************)
(* Strings and JavaScript values.                                          *)
(***************************************************************************)
\* what JavaScript reads at an index past the end of argv
JsUndefined == "<undefined>"
\* the null that semver.inc returns for a version it cannot parse
JsNull == "<null>"

\* `${x}` and String.replace turn null into the text "null"
JsToString(s) == IF s = JsNull THEN "null" ELSE IF s = JsUndefined THEN "undefined" ELSE s

\* a test for undefined alone
FalsyUndefinedOnly(s) == s = JsUndefined

\* !x for a string-or-undefined x
Falsy(s) == s = JsUndefined \/ s = ""

\* argv[i] with JavaScript's 0-based index
ArgvAt(argv, i) == IF i + 1 <= Len(argv) THEN argv[i + 1] ELSE JsUndefined

\* argv.includes(flag)
Includes(argv, flag) == \E i \in 1..Len(argv) : argv[i] = flag

(***************************************************************************)
(* semver, as deploy uses it (semver.inc on the package version).          *)
(***************************************************************************)
\* the text of version a.b.c
FormatVersion(t) == ToString(t[1]) \o "." \o ToString(t[2]) \o "." \o ToString(t[3])

\* the versions the parser is exercised on: every version a drawn one can be
\* incremented to within one behaviour
ParseDomain ==
    LET C == 0..(MaxComp + MaxDeploys + MaxRedeploys) IN C \X C \X C

\* the text of every version of ParseDomain
VersionText == [t \in ParseDomain |-> FormatVersion(t)]

\* semver.parse: the triple a string denotes; <<>> when it denotes none
ParseVersion(s) ==
    IF \E t \in ParseDomain : VersionText[t] = s
    THEN CHOOSE t \in ParseDomain : VersionText[t] = s
    ELSE <<>>

\* the increment of semver.inc
IncTriple(t, release) ==
    CASE release = "major" -> <<t[1] + 1, 0, 0>>
      [] release = "minor" -> <<t[1], t[2] + 1, 0>>
      [] release = "patch" -> <<t[1], t[2], t[3] + 1>>

\* semver.inc(version, release): null for an unparseable version
SemverInc(version, release) ==
    IF ParseVersion(version) = <<>>
    THEN JsNull
    ELSE FormatVersion(IncTriple(ParseVersion(version), release))

(***************************************************************************)
(* Paths (getPaths) and the path collision detector.                       *)
(***************************************************************************)
\* getPaths().assetBaseUrlTemplate.replace('%PLUGIN_VERSION%', nextVersion)
AssetBaseUrl(nextVersion) == "/plugins/plugin-test/" \o JsToString(nextVersion)

BundleUri(baseUrl) == baseUrl \o "/bundle.js"

SourceMapUri(baseUrl) == baseUrl \o "/bundle.js.map"

\* _verifyPath with the function versions left unchecked
VerifyPathAssetsOnly(baseUrl, build) ==
    \A i \in 1..Len(build.asset_versions) :
        /\ build.asset_versions[i].path # BundleUri(baseUrl)
        /\ build.asset_versions[i].path # SourceMapUri(baseUrl)

\* _verifyPath: true when neither new path is in use
VerifyPath(baseUrl, build) ==
    LET bundlePath == BundleUri(baseUrl)
        sourceMapPath == SourceMapUri(baseUrl)
        existingAssets == build.asset_versions
        existingFunctions == build.function_versions
        checkPathIsUnused(v) == v.path # bundlePath /\ v.path # sourceMapPath
    IN  /\ \A i \in 1..Len(existingAssets) : checkPathIsUnused(existingAssets[i])
        /\ \A i \in 1..Len(existingFunctions) : checkPathIsUnused(existingFunctions[i])

\* Array.prototype.map((v) => v.sid)
Sids(seq) == [i \in 1..Len(seq) |-> seq[i].sid]

\* the paths of a list of version records
Paths(seq) == {seq[i].path : i \in 1..Len(seq)}

\* all sequences over S of length at most n
SeqsUpTo(S, n) == UNION {[1..k -> S] : k \in 0..n}

(***************************************************************************)
(* The version resolver: `deploy` up to its call of _doDeploy.             *)
(***************************************************************************)
allowedBumps == {"major", "minor", "patch", "version"}

\* the Options without the overwrite that --disallow-versioning implies
OptionsOfFlagsOnly(argv) ==
    [isPublic |-> Includes(argv, "--public"),
     overwrite |-> Includes(argv, "--overwrite"),
     isPluginsPilot |-> Includes(argv, "--pilot-plugins-api"),
     disallowVersioning |-> Includes(argv, "--disallow-versioning")]

\* the Options built from argv
OptionsOf(argv) ==
    [isPublic |-> Includes(argv, "--public"),
     overwrite |-> Includes(argv, "--overwrite") \/ Includes(argv, "--disallow-versioning"),
     isPluginsPilot |-> Includes(argv, "--pilot-plugins-api"),
     disallowVersioning |-> Includes(argv, "--disallow-versioning")]

\* deploy with every directive read as a patch increment
ResolveDeployAlwaysPatch(argv, version) ==
    LET bump == ArgvAt(argv, 0)
        opts == OptionsOf(argv)
    IN  IF Includes(argv, "--disallow-versioning")
        THEN [err |-> "", nextVersion |-> "0.0.0", opts |-> opts]
        ELSE IF bump \notin allowedBumps
        THEN [err |-> "InvalidArgument: bump", nextVersion |-> ArgvAt(argv, 1), opts |-> opts]
        ELSE IF bump = "version" /\ Falsy(ArgvAt(argv, 1))
        THEN [err |-> "InvalidArgument: version", nextVersion |-> ArgvAt(argv, 1), opts |-> opts]
        ELSE IF bump # "version"
        THEN [err |-> "", nextVersion |-> SemverInc(version, "patch"), opts |-> opts]
        ELSE [err |-> "", nextVersion |-> ArgvAt(argv, 1), opts |-> opts]

\* what deploy(...argv) hands to _doDeploy, or the error it throws, when the
\* package version is `version`
ResolveDeploy(argv, version) ==
    LET disallowVersioning == Includes(argv, "--disallow-versioning")
        bump == ArgvAt(argv, 0)
        opts == OptionsOf(argv)
    IN  IF disallowVersioning
        THEN [err |-> "", nextVersion |-> "0.0.0", opts |-> opts]
        ELSE IF bump \notin allowedBumps
        THEN [err |-> "InvalidArgument: bump", nextVersion |-> ArgvAt(argv, 1), opts |-> opts]
        ELSE IF bump = "version" /\ Falsy(ArgvAt(argv, 1))
        THEN [err |-> "InvalidArgument: version", nextVersion |-> ArgvAt(argv, 1), opts |-> opts]
        ELSE IF bump = "overwrite"
        THEN [err |-> "", nextVersion |-> version,
              opts |-> [opts EXCEPT !.overwrite = TRUE]]
        ELSE IF bump # "version"
        THEN [err |-> "", nextVersion |-> SemverInc(version, bump), opts |-> opts]
        ELSE [err |-> "", nextVersion |-> ArgvAt(argv, 1), opts |-> opts]

(***************************************************************************)
(* semver.coerce and semver.satisfies, on the ranges the Flex configuration *)
(* service hands out: an exact version, >=a.b.c and ^a.b.c.                *)
(***************************************************************************)
\* the versions of Flex UI and React the validator is exercised on
UIVersionDomain ==
    {<<1, 18, 0>>, <<1, 19, 0>>, <<1, 20, 0>>, <<16, 5, 2>>, <<16, 13, 1>>}

RangeOps == {"", ">=", "^"}

\* lexicographic order of version triples
VersionGeq(t, r) ==
    \/ t[1] > r[1]
    \/ t[1] = r[1] /\ t[2] > r[2]
    \/ t[1] = r[1] /\ t[2] = r[2] /\ t[3] >= r[3]

\* semver.coerce: the first version found in the text, null when there is none
Coerce(s) ==
    IF \E op \in RangeOps, t \in UIVersionDomain : s = op \o FormatVersion(t)
    THEN FormatVersion(CHOOSE t \in UIVersionDomain :
                          \E op \in RangeOps : s = op \o FormatVersion(t))
    ELSE JsNull

\* semver.satisfies(version, range): false for an invalid version or range
Satisfies(version, range) ==
    \E t \in UIVersionDomain, r \in UIVersionDomain, op \in RangeOps :
        /\ version = FormatVersion(t)
        /\ range = op \o FormatVersion(r)
        /\ CASE op = "" -> t = r
             [] op = ">=" -> VersionGeq(t, r)
             [] op = "^" -> VersionGeq(t, r) /\ t[1] = r[1]

\* the validator without its early return for allowReact = false
VerifyFlexUIConfigurationUngated(flexUI, dependencies, allowReact, localReact, localReactDOM) ==
    LET coerced == Coerce(flexUI)
        UISupports == \/ Satisfies("1.19.0", flexUI)
                      \/ (coerced # JsNull /\ Satisfies(coerced, ">=1.19.0"))
        reactSupported == Satisfies(localReact, JsToString(dependencies.react))
        reactDOMSupported == Satisfies(localReactDOM, JsToString(dependencies.reactDom))
    IN  IF ~UISupports THEN "PreconditionFailed: Flex UI version"
        ELSE IF Falsy(dependencies.react) \/ Falsy(dependencies.reactDom)
        THEN "PreconditionFailed: React version not set"
        ELSE IF ~reactSupported \/ ~reactDOMSupported THEN "confirm"
        ELSE "ok"

\* the validator without the floor on the Flex UI version
VerifyFlexUIConfigurationNoFloor(flexUI, dependencies, allowReact, localReact, localReactDOM) ==
    LET reactSupported == Satisfies(localReact, JsToString(dependencies.react))
        reactDOMSupported == Satisfies(localReactDOM, JsToString(dependencies.reactDom))
    IN  IF ~allowReact THEN "ok"
        ELSE IF Falsy(dependencies.react) \/ Falsy(dependencies.reactDom)
        THEN "PreconditionFailed: React version not set"
        ELSE IF ~reactSupported \/ ~reactDOMSupported THEN "confirm"
        ELSE "ok"

\* the validator asking only when both react and react-dom mismatch
VerifyFlexUIConfigurationBothMismatch(flexUI, dependencies, allowReact, localReact, localReactDOM) ==
    LET coerced == Coerce(flexUI)
        UISupports == \/ Satisfies("1.19.0", flexUI)
                      \/ (coerced # JsNull /\ Satisfies(coerced, ">=1.19.0"))
        reactSupported == Satisfies(localReact, JsToString(dependencies.react))
        reactDOMSupported == Satisfies(localReactDOM, JsToString(dependencies.reactDom))
    IN  IF ~allowReact THEN "ok"
        ELSE IF ~UISupports THEN "PreconditionFailed: Flex UI version"
        ELSE IF Falsy(dependencies.react) \/ Falsy(dependencies.reactDom)
        THEN "PreconditionFailed: React version not set"
        ELSE IF ~reactSupported /\ ~reactDOMSupported THEN "confirm"
        ELSE "ok"

\* _verifyFlexUIConfiguration up to its prompt: "ok" when it returns, "confirm"
\* when it asks, otherwise the error it throws.  localReact and localReactDOM
\* are getPackageVersion('react') and getPackageVersion('react-dom').
VerifyFlexUIConfiguration(flexUI, dependencies, allowReact, localReact, localReactDOM) ==
    LET coerced == Coerce(flexUI)
        UISupports == \/ Satisfies("1.19.0", flexUI)
                      \/ (coerced # JsNull /\ Satisfies(coerced, ">=1.19.0"))
        reactSupported == Satisfies(localReact, JsToString(dependencies.react))
        reactDOMSupported == Satisfies(localReactDOM, JsToString(dependencies.reactDom))
    IN  IF ~allowReact THEN "ok"
        ELSE IF ~UISupports THEN "PreconditionFailed: Flex UI version"
        ELSE IF Falsy(dependencies.react) \/ Falsy(dependencies.reactDom)
        THEN "PreconditionFailed: React version not set"
        ELSE IF ~reactSupported \/ ~reactDOMSupported THEN "confirm"
        ELSE "ok"

(***************************************************************************)
(* State.                                                                  *)
(***************************************************************************)
VARIABLES
    \* the plugin's package.json version (getPaths().app.version)
    appVersion,
    \* the Serverless service: its environment (none or one), every build
    \* created (a build's sid is its index), the sid of the build the
    \* environment runs (0: none), the path of every asset or function
    \* version (a version's sid is its index)
    environment, builds, envBuildSid, versions,
    \* invocations of deploy that have ended, and the nextVersion of every
    \* DeployResult they returned
    deploys, deployed,
    \* the invocation in progress: where it is, its arguments and locals
    pc, argv, nextVersion, opts, credentials, runtime, routeCollision,
    bundleVersion, sourceMapVersion, buildData, newBuild, calls, err, result,
    \* one application of _verifyPath on its own: its arguments and result
    vpBaseUrl, vpBuild, vpResult,
    \* what _verifyFlexUIConfiguration may find: for the UNBUNDLED_REACT toggle,
    \* the Flex UI version and React versions of the Flex project and the React
    \* installed locally, the set of values each may have; and what was typed
    \* at its prompt (none or one input)
    uiConfigs, answered,
    \* what the invocation in progress has found: whether the bundle file
    \* exists, and how the request of hasFlag ended (none or one value each)
    bundleExists, flagRequest,
    \* one application of _getAccount on its own: its arguments, the account
    \* sids it has looked up and what it returned
    gaRuntime, gaCredentials, gaFetched, gaResult

remoteVars == <<environment, builds, envBuildSid, versions>>

runVars == <<pc, argv, nextVersion, opts, credentials, runtime, routeCollision,
             bundleVersion, sourceMapVersion, buildData, newBuild, calls, err, result>>

vpVars == <<vpBaseUrl, vpBuild, vpResult>>

vfVars == <<uiConfigs, answered>>

gaVars == <<gaRuntime, gaCredentials, gaFetched, gaResult>>

foundVars == <<bundleExists, flagRequest>>

vars == <<appVersion, remoteVars, deploys, deployed, runVars, vpVars, vfVars, gaVars,
          foundVars>>

(***************************************************************************)
(* Values the model draws from.                                            *)
(***************************************************************************)
\* validPackage.version of the paths test
InitialVersion == "1.2.3"

\* the command lines the resolver is tried on
ArgvPool ==
    {<<>>, <<"major">>, <<"minor">>, <<"patch">>, <<"patch", "--overwrite">>,
     <<"version">>, <<"version", "">>, <<"version", "1.2.4">>,
     <<"version", "1.2.4", "--overwrite">>,
     <<"version", "latest", "--public">>, <<"overwrite">>, <<"overwrite", "--overwrite">>,
     <<"bogus">>, <<"--disallow-versioning">>, <<"major", "--disallow-versioning">>,
     <<"version", "1.2.4", "--disallow-versioning">>,
     <<"bogus", "--disallow-versioning">>,
     <<"overwrite", "--disallow-versioning">>,
     <<"patch", "--pilot-plugins-api">>}

\* the command lines whole deployments are run with
DeployArgvPool ==
    {<<>>, <<"major">>, <<"patch">>, <<"version">>, <<"version", "">>, <<"version", "1.2.4">>,
     <<"version", "1.2.4", "--overwrite">>, <<"overwrite">>, <<"bogus">>,
     <<"--disallow-versioning">>, <<"patch", "--pilot-plugins-api", "--public">>}

\* the command lines of a re-deployment
RedeployArgvPool ==
    {<<"patch", "--pilot-plugins-api">>, <<"version", "1.2.4">>,
     <<"version", "1.2.4", "--overwrite">>, <<"version", "1.2.5">>,
     <<"--disallow-versioning">>}

\* the paths of the records of the build that exists before the first invocation
ExistingPaths ==
    {BundleUri(AssetBaseUrl("1.2.4")), SourceMapUri(AssetBaseUrl("1.2.4")),
     "/assets/other.js"}

DependenciesPool == {<<>>, <<[name |-> "lodash", version |-> "4.17.15"]>>}

UIVersionPool == {"1.18.0", "1.19.0", "1.20.0", "^1.18.0", "latest"}

UIDependenciesPool ==
    {[react |-> JsUndefined, reactDom |-> JsUndefined],
     [react |-> "16.5.2", reactDom |-> "16.5.2"],
     [react |-> "^16.5.2", reactDom |-> "16.13.1"],
     [react |-> "^16.5.2", reactDom |-> JsUndefined],
     [react |-> JsUndefined, reactDom |-> "16.5.2"]}

LocalReactPool == {"16.5.2", "16.13.1"}

\* process.env.UNBUNDLED_REACT === 'true', what getFlexUIVersion and
\* getUIDependencies return, and getPackageVersion of react and react-dom
UIConfigPool ==
    [allowReact : BOOLEAN, flexUI : UIVersionPool, dependencies : UIDependenciesPool,
     localReact : LocalReactPool, localReactDOM : LocalReactPool]

\* how _verifyFlexUIConfiguration ends, up to its prompt, in each configuration
ValidatorOutcomes ==
    {[config |-> c,
      outcome |-> VerifyFlexUIConfiguration(c.flexUI, c.dependencies, c.allowReact,
                                            c.localReact, c.localReactDOM)] :
        c \in UIConfigPool}

\* what can be typed at a prompt; the empty input takes the default answer
ConfirmInputs == {"Y", "N", ""}

\* confirm(question, defaultAnswer)
ConfirmAnswer(input, defaultAnswer) ==
    (IF input = "" THEN defaultAnswer ELSE input) = "Y"

\* what follows the two-letter prefix of a sid
SidTails == {"00000000000000000000000000000000"}

\* an account sid with its auth token, or an API key
CredentialPool == {"AC" \o t : t \in SidTails} \cup {"SK" \o t : t \in SidTails}

\* what follows the prefix of the sid of another account
OtherSidTails == {"00000000000000000000000000000001"}

\* String.prototype.startsWith on sids
StartsWith(s, prefix) == \E t \in SidTails \cup OtherSidTails : s = prefix \o t

\* _getAccount looking the account up whatever the credential is
AccountLookupAlways(rt, creds) == <<rt.service.account_sid>>

\* the account sids _getAccount hands to accountClient.get: the account of the
\* service for a credential whose username starts with AC, none otherwise
AccountLookup(rt, creds) ==
    IF StartsWith(creds, "AC") THEN <<rt.service.account_sid>> ELSE <<>>

\* the service and its environment; their sids are well formed, so the sid
\* checks of the clients' constructors pass
TheService == [sid |-> "ZS1", account_sid |-> "AC00000000000000000000000000000000"]

TheEnvironment == [sid |-> "ZE1", domain_name |-> "plugin-test.twil.io"]

\* version records with the given paths, their sids counted from `first`
Records(paths, first) == [i \in 1..Len(paths) |-> [sid |-> first + i - 1, path |-> paths[i]]]

(***************************************************************************)
(* The state before any invocation.                                        *)
(***************************************************************************)
IdleRun ==
    /\ pc = "idle"
    /\ argv = <<>>
    /\ nextVersion = JsUndefined
    /\ opts = OptionsOf(<<>>)
    /\ credentials = ""
    /\ runtime = [service |-> TheService, environment |-> <<>>, build |-> <<>>]
    /\ routeCollision = FALSE
    /\ bundleVersion = <<>>
    /\ sourceMapVersion = <<>>
    /\ buildData = <<>>
    /\ newBuild = <<>>
    /\ calls = <<>>
    /\ err = ""
    /\ result = <<>>
    /\ bundleExists = <<>>
    /\ flagRequest = <<>>

IdleVerifyPath ==
    /\ vpBaseUrl = ""
    /\ vpBuild = [asset_versions |-> <<>>, function_versions |-> <<>>, dependencies |-> <<>>]
    /\ vpResult = "idle"

\* the configurations `configs` allows
UIConfigsOf(configs) ==
    {v \in ValidatorOutcomes :
        /\ v.config.allowReact \in configs.allowReact
        /\ v.config.flexUI \in configs.flexUI
        /\ v.config.dependencies \in configs.dependencies
        /\ v.config.localReact \in configs.localReact
        /\ v.config.localReactDOM \in configs.localReactDOM}

\* any configuration of the pools, nothing typed yet
AnyUIConfig ==
    /\ uiConfigs = [allowReact |-> BOOLEAN, flexUI |-> UIVersionPool,
                    dependencies |-> UIDependenciesPool,
                    localReact |-> LocalReactPool, localReactDOM |-> LocalReactPool]
    /\ answered = <<>>

IdleGetAccount ==
    /\ gaRuntime = [service |-> TheService, environment |-> <<>>, build |-> <<>>]
    /\ gaCredentials = ""
    /\ gaFetched = <<>>
    /\ gaResult = "idle"

\* a service without environment, one with an environment and no build, or one
\* whose environment runs a build of at most `n` existing records
InitRemote(n) ==
    \/ /\ environment = <<>>
       /\ builds = <<>> /\ envBuildSid = 0 /\ versions = <<>>
    \/ /\ environment = <<TheEnvironment>>
       /\ builds = <<>> /\ envBuildSid = 0 /\ versions = <<>>
    \/ \E ap \in SeqsUpTo(ExistingPaths, n),
          fp \in SeqsUpTo(ExistingPaths, n),
          deps \in DependenciesPool :
          /\ Len(ap) + Len(fp) \in 1..n
          /\ environment = <<TheEnvironment>>
          /\ versions = ap \o fp
          /\ builds = <<[sid |-> 1,
                         asset_versions |-> Records(ap, 1),
                         function_versions |-> Records(fp, Len(ap) + 1),
                         dependencies |-> deps]>>
          /\ envBuildSid = 1

Init ==
    /\ appVersion = InitialVersion
    /\ InitRemote(MaxExisting)
    /\ deploys = 0
    /\ deployed = {}
    /\ IdleRun
    /\ IdleVerifyPath
    /\ AnyUIConfig
    /\ IdleGetAccount

(***************************************************************************)
(* deploy(...argv): the version resolver, then _doDeploy.                  *)
(***************************************************************************)
\* what stays as it is while an invocation reads or fails
localUnchanged == <<appVersion, deploys, deployed, vpVars, vfVars, gaVars, foundVars>>

\* a rejected promise ends the invocation: no stage is retried or undone
Throw(e) == pc' = "aborted" /\ err' = e

Deploy(a) ==
    /\ pc = "idle"
    /\ LET r == ResolveDeploy(a, appVersion)
       IN  /\ argv' = a
           /\ nextVersion' = r.nextVersion
           /\ opts' = r.opts
           /\ IF r.err # "" THEN Throw(r.err)
              ELSE pc' = "checkFilesExist" /\ err' = ""
    /\ UNCHANGED <<credentials, runtime,
                   routeCollision, bundleVersion, sourceMapVersion, buildData,
                   newBuild, calls, result>>
    /\ UNCHANGED <<remoteVars, localUnchanged>>

pluginBaseUrl == AssetBaseUrl(nextVersion)

bundleUri == BundleUri(pluginBaseUrl)

sourceMapUri == SourceMapUri(pluginBaseUrl)

pluginUrl == "https://" \o runtime.environment[1].domain_name \o bundleUri

\* the check of the bundle file with its throw lost
CheckFilesExistNoThrow ==
    /\ pc = "checkFilesExist"
    /\ calls' = Append(calls, "checkFilesExist")
    /\ \E exists \in BOOLEAN :
          /\ bundleExists' = <<exists>>
          /\ pc' = "getCredential" /\ err' = ""
    /\ UNCHANGED <<argv, nextVersion, opts, credentials, runtime, routeCollision, bundleVersion,
                   sourceMapVersion, buildData, newBuild, result>>
    /\ UNCHANGED <<remoteVars, appVersion, deploys, deployed, vpVars, vfVars, gaVars,
                   flagRequest>>

\* 1. the bundle must have been built
CheckFilesExist ==
    /\ pc = "checkFilesExist"
    /\ calls' = Append(calls, "checkFilesExist")
    /\ \E exists \in BOOLEAN :
          /\ bundleExists' = <<exists>>
          /\ IF exists THEN pc' = "getCredential" /\ err' = ""
             ELSE Throw("PreconditionFailed: build file")
    /\ UNCHANGED <<argv, nextVersion, opts, credentials, runtime, routeCollision, bundleVersion,
                   sourceMapVersion, buildData, newBuild, result>>
    /\ UNCHANGED <<remoteVars, appVersion, deploys, deployed, vpVars, vfVars, gaVars,
                   flagRequest>>

GetCredential ==
    /\ pc = "getCredential"
    /\ calls' = Append(calls, "getCredential")
    /\ \/ /\ Throw("RemoteError: getCredential")
          /\ UNCHANGED credentials
       \/ /\ credentials' \in CredentialPool
          /\ pc' = IF opts.isPluginsPilot THEN "hasFlag" ELSE "getRuntime"
          /\ err' = ""
    /\ UNCHANGED <<argv, nextVersion, opts, runtime, routeCollision, bundleVersion,
                   sourceMapVersion, buildData, newBuild, result>>
    /\ UNCHANGED <<remoteVars, localUnchanged>>

\* hasFlag that passes the rejection of its request on
PluginsApiHasFlagThrows(request) == IF request = "resolved" THEN "true" ELSE "throws"

\* PluginsApiClient.hasFlag: true when its one request resolves, false when it
\* is rejected
PluginsApiHasFlag(request) == IF request = "resolved" THEN "true" ELSE "false"

\* 2. the pilot gate: one GET of /Plugins made by hasFlag
HasFlag ==
    /\ pc = "hasFlag"
    /\ calls' = Append(calls, "GET /Plugins")
    /\ \E request \in {"resolved", "rejected"} :
          LET hasFlag == PluginsApiHasFlag(request)
          IN  /\ flagRequest' = <<request>>
              /\ IF hasFlag = "true" THEN pc' = "getRuntime" /\ err' = ""
                 ELSE IF hasFlag = "false" THEN Throw("Forbidden: pilot")
                 ELSE Throw("RemoteError: hasFlag")
    /\ UNCHANGED <<argv, nextVersion, opts, credentials, runtime, routeCollision, bundleVersion,
                   sourceMapVersion, buildData, newBuild, result>>
    /\ UNCHANGED <<remoteVars, appVersion, deploys, deployed, vpVars, vfVars, gaVars,
                   bundleExists>>

\* the snapshot getRuntime returns of the service as it is now
CurrentRuntime ==
    [service |-> TheService,
     environment |-> environment,
     build |-> IF envBuildSid = 0 THEN <<>> ELSE <<builds[envBuildSid]>>]

\* runtime discovery without the test for an environment
GetRuntimeUnchecked ==
    /\ pc = "getRuntime"
    /\ calls' = Append(calls, "getRuntime")
    /\ \/ /\ Throw("RemoteError: getRuntime")
          /\ UNCHANGED runtime
       \/ /\ runtime' = CurrentRuntime
          /\ pc' = "getFlexUIVersion" /\ err' = ""
    /\ UNCHANGED <<argv, nextVersion, opts, credentials, routeCollision, bundleVersion,
                   sourceMapVersion, buildData, newBuild, result>>
    /\ UNCHANGED <<remoteVars, localUnchanged>>

\* 3. runtime discovery
GetRuntime ==
    /\ pc = "getRuntime"
    /\ calls' = Append(calls, "getRuntime")
    /\ \/ /\ Throw("RemoteError: getRuntime")
          /\ UNCHANGED runtime
       \/ /\ runtime' = CurrentRuntime
          /\ IF Len(environment) = 0
             THEN Throw("PreconditionFailed: no environment")
             ELSE pc' = "getFlexUIVersion" /\ err' = ""
    /\ UNCHANGED <<argv, nextVersion, opts, credentials, routeCollision, bundleVersion,
                   sourceMapVersion, buildData, newBuild, result>>
    /\ UNCHANGED <<remoteVars, localUnchanged>>

\* 4. compatibility validation: the two configuration reads.  What they return
\* is read by _verifyFlexUIConfiguration alone and is drawn there.
GetFlexUIVersion ==
    /\ pc = "getFlexUIVersion"
    /\ calls' = Append(calls, "getFlexUIVersion")
    /\ \/ Throw("RemoteError: getFlexUIVersion")
       \/ pc' = "getUIDependencies" /\ err' = ""
    /\ UNCHANGED <<argv, nextVersion, opts, credentials, runtime, routeCollision,
                   bundleVersion, sourceMapVersion, buildData, newBuild, result>>
    /\ UNCHANGED <<remoteVars, localUnchanged>>

GetUIDependencies ==
    /\ pc = "getUIDependencies"
    /\ calls' = Append(calls, "getUIDependencies")
    /\ \/ Throw("RemoteError: getUIDependencies")
       \/ pc' = "verifyFlexUIConfiguration" /\ err' = ""
    /\ UNCHANGED <<argv, nextVersion, opts, credentials, runtime, routeCollision,
                   bundleVersion, sourceMapVersion, buildData, newBuild, result>>
    /\ UNCHANGED <<remoteVars, localUnchanged>>

\* _verifyFlexUIConfiguration until it returns, throws or prompts
VerifyFlexUI ==
    /\ pc = "verifyFlexUIConfiguration"
    /\ \E outcome \in {v.outcome : v \in UIConfigsOf(uiConfigs)} :
          IF outcome = "ok"
          THEN pc' = "checkCollision" /\ err' = "" /\ UNCHANGED calls
          ELSE IF outcome = "confirm"
          THEN pc' = "confirm" /\ err' = "" /\ calls' = Append(calls, "confirm")
          ELSE Throw(outcome) /\ UNCHANGED calls
    /\ UNCHANGED <<argv, nextVersion, opts, credentials, runtime, routeCollision,
                   bundleVersion, sourceMapVersion, buildData, newBuild, result>>
    /\ UNCHANGED <<remoteVars, localUnchanged>>

\* the answer to 'Do you still want to continue deploying?', 'N' by default
Confirm ==
    /\ pc = "confirm"
    /\ \E input \in ConfirmInputs :
          LET answer == ConfirmAnswer(input, "N")
          IN  /\ answered' = <<input>>
              /\ IF answer THEN pc' = "checkCollision" /\ err' = ""
                 ELSE Throw("UserRejected")
    /\ UNCHANGED <<argv, nextVersion, opts, credentials, runtime, routeCollision, bundleVersion,
                   sourceMapVersion, buildData, newBuild, calls, result>>
    /\ UNCHANGED <<remoteVars, appVersion, deploys, deployed, uiConfigs, vpVars, gaVars,
                   foundVars>>

\* the collision test with its negation lost
CollisionNotNegated(rt, baseUrl) ==
    IF Len(rt.build) > 0 THEN VerifyPath(baseUrl, rt.build[1]) ELSE FALSE

\* const collision = runtime.build ? !_verifyPath(pluginBaseUrl, runtime.build) : false
Collision(rt, baseUrl) ==
    IF Len(rt.build) > 0 THEN ~VerifyPath(baseUrl, rt.build[1]) ELSE FALSE

\* 5. check duplicate routes
CheckCollision ==
    /\ pc = "checkCollision"
    /\ LET collision == Collision(runtime, pluginBaseUrl)
       IN  IF collision /\ ~opts.overwrite
           THEN Throw("Conflict: " \o pluginUrl) /\ UNCHANGED routeCollision
           ELSE pc' = "uploadBundle" /\ err' = "" /\ routeCollision' = collision
    /\ UNCHANGED <<argv, nextVersion, opts, credentials, runtime, bundleVersion,
                   sourceMapVersion, buildData, newBuild, calls, result>>
    /\ UNCHANGED <<remoteVars, localUnchanged>>

\* assetClient.upload: a new asset version at `uri`, its sid the next free one
Uploaded(uri, isPrivate) ==
    [sid |-> Len(versions) + 1, path |-> uri,
     visibility |-> IF isPrivate THEN "private" ELSE "public"]

\* 6. upload the bundle
UploadBundle ==
    /\ pc = "uploadBundle"
    /\ calls' = Append(calls, "upload")
    /\ \/ /\ Throw("RemoteError: upload")
          /\ UNCHANGED <<bundleVersion, versions>>
       \/ /\ bundleVersion' = <<Uploaded(bundleUri, ~opts.isPublic)>>
          /\ versions' = Append(versions, bundleUri)
          /\ pc' = "uploadSourceMap"
          /\ err' = ""
    /\ UNCHANGED <<argv, nextVersion, opts, credentials, runtime, routeCollision,
                   sourceMapVersion, buildData, newBuild, result>>
    /\ UNCHANGED <<environment, builds, envBuildSid, localUnchanged>>

\* the build data with the replaced asset versions carried forward as well
ComposeBuildDataNoFilter(rt, collision, overwrite, bUri, smUri, bSid, smSid) ==
    [FunctionVersions |->
         IF Len(rt.build) > 0 THEN Sids(rt.build[1].function_versions) ELSE <<>>,
     AssetVersions |->
         (IF Len(rt.build) > 0 THEN Sids(rt.build[1].asset_versions) ELSE <<>>)
             \o <<bSid, smSid>>,
     Dependencies |-> IF Len(rt.build) > 0 THEN rt.build[1].dependencies ELSE <<>>]

\* the build data with the source map's sid left out
ComposeBuildDataNoSourceMap(rt, collision, overwrite, bUri, smUri, bSid, smSid) ==
    [FunctionVersions |->
         IF Len(rt.build) > 0 THEN Sids(rt.build[1].function_versions) ELSE <<>>,
     AssetVersions |->
         (IF Len(rt.build) > 0
          THEN Sids(SelectSeq(rt.build[1].asset_versions,
                              LAMBDA v : v.path # bUri /\ v.path # smUri))
          ELSE <<>>) \o <<bSid>>,
     Dependencies |-> IF Len(rt.build) > 0 THEN rt.build[1].dependencies ELSE <<>>]

\* the build data with nothing carried forward from the existing asset versions
ComposeBuildDataOnlyNew(rt, collision, overwrite, bUri, smUri, bSid, smSid) ==
    [FunctionVersions |->
         IF Len(rt.build) > 0 THEN Sids(rt.build[1].function_versions) ELSE <<>>,
     AssetVersions |-> <<bSid, smSid>>,
     Dependencies |-> IF Len(rt.build) > 0 THEN rt.build[1].dependencies ELSE <<>>]

\* 7. the data of the new build
ComposeBuildData(rt, collision, overwrite, bUri, smUri, bSid, smSid) ==
    LET buildAssets == IF Len(rt.build) > 0 THEN rt.build[1].asset_versions ELSE <<>>
        buildFunctions == IF Len(rt.build) > 0 THEN rt.build[1].function_versions ELSE <<>>
        buildDependencies == IF Len(rt.build) > 0 THEN rt.build[1].dependencies ELSE <<>>
        existingAssets ==
            IF collision /\ overwrite
            THEN SelectSeq(buildAssets, LAMBDA v : v.path # bUri /\ v.path # smUri)
            ELSE buildAssets
    IN  [FunctionVersions |-> Sids(buildFunctions),
         AssetVersions |-> Sids(existingAssets) \o <<bSid, smSid>>,
         Dependencies |-> buildDependencies]

\* the source-map upload whose failure is swallowed: the build data is composed
\* with the sid the upload would have returned
UploadSourceMapFailureIgnored ==
    /\ pc = "uploadSourceMap"
    /\ calls' = Append(calls, "upload")
    /\ \/ /\ UNCHANGED <<sourceMapVersion, versions>>
          /\ buildData' = <<ComposeBuildData(runtime, routeCollision, opts.overwrite,
                                             bundleUri, sourceMapUri,
                                             bundleVersion[1].sid, Len(versions) + 1)>>
          /\ pc' = "registerSid"
          /\ err' = ""
       \/ /\ sourceMapVersion' = <<Uploaded(sourceMapUri, ~opts.isPublic)>>
          /\ versions' = Append(versions, sourceMapUri)
          /\ buildData' = <<ComposeBuildData(runtime, routeCollision, opts.overwrite,
                                             bundleUri, sourceMapUri,
                                             bundleVersion[1].sid, Len(versions) + 1)>>
          /\ pc' = "registerSid"
          /\ err' = ""
    /\ UNCHANGED <<argv, nextVersion, opts, credentials, runtime, routeCollision, bundleVersion,
                   newBuild, result>>
    /\ UNCHANGED <<environment, builds, envBuildSid, localUnchanged>>

\* upload the source map, then compose the build data
UploadSourceMap ==
    /\ pc = "uploadSourceMap"
    /\ calls' = Append(calls, "upload")
    /\ \/ /\ Throw("RemoteError: upload")
          /\ UNCHANGED <<sourceMapVersion, versions, buildData>>
       \/ /\ sourceMapVersion' = <<Uploaded(sourceMapUri, ~opts.isPublic)>>
          /\ versions' = Append(versions, sourceMapUri)
          /\ buildData' = <<ComposeBuildData(runtime, routeCollision, opts.overwrite,
                                             bundleUri, sourceMapUri,
                                             bundleVersion[1].sid, Len(versions) + 1)>>
          /\ pc' = "registerSid"
          /\ err' = ""
    /\ UNCHANGED <<argv, nextVersion, opts, credentials, runtime, routeCollision, bundleVersion,
                   newBuild, result>>
    /\ UNCHANGED <<environment, builds, envBuildSid, localUnchanged>>

\* the registration tried again after it has failed
RegisterSidRetried ==
    /\ pc = "registerSid"
    /\ calls' = Append(calls, "registerSid")
    /\ \/ pc' = "registerSid" /\ err' = "RemoteError: registerSid"
       \/ pc' = "buildCreate" /\ err' = ""
    /\ UNCHANGED <<argv, nextVersion, opts, credentials, runtime, routeCollision, bundleVersion,
                   sourceMapVersion, buildData, newBuild, result>>
    /\ UNCHANGED <<remoteVars, localUnchanged>>

\* 8. register the service with the configuration service
RegisterSid ==
    /\ pc = "registerSid"
    /\ calls' = Append(calls, "registerSid")
    /\ \/ Throw("RemoteError: registerSid")
       \/ pc' = "buildCreate" /\ err' = ""
    /\ UNCHANGED <<argv, nextVersion, opts, credentials, runtime, routeCollision, bundleVersion,
                   sourceMapVersion, buildData, newBuild, result>>
    /\ UNCHANGED <<remoteVars, localUnchanged>>

\* the build the service makes of the submitted sids
CreatedBuild(data, sid) ==
    [sid |-> sid,
     asset_versions |->
         [i \in 1..Len(data.AssetVersions) |->
             [sid |-> data.AssetVersions[i], path |-> versions[data.AssetVersions[i]]]],
     function_versions |->
         [i \in 1..Len(data.FunctionVersions) |->
             [sid |-> data.FunctionVersions[i], path |-> versions[data.FunctionVersions[i]]]],
     dependencies |-> data.Dependencies]

\* 9. create the build
BuildCreate ==
    /\ pc = "buildCreate"
    /\ calls' = Append(calls, "build.create")
    /\ \/ /\ Throw("RemoteError: build.create")
          /\ UNCHANGED <<newBuild, builds>>
       \/ /\ newBuild' = <<CreatedBuild(buildData[1], Len(builds) + 1)>>
          /\ builds' = Append(builds, CreatedBuild(buildData[1], Len(builds) + 1))
          /\ pc' = "deploymentCreate"
          /\ err' = ""
    /\ UNCHANGED <<argv, nextVersion, opts, credentials, runtime, routeCollision, bundleVersion,
                   sourceMapVersion, buildData, result>>
    /\ UNCHANGED <<environment, envBuildSid, versions, localUnchanged>>

\* the deployment step with updateAppVersion moved before deploymentClient.create
DeploymentCreateVersionFirst ==
    /\ pc = "deploymentCreate"
    /\ appVersion' = nextVersion
    /\ \/ /\ Throw("RemoteError: deployment.create")
          /\ calls' = calls \o <<"updateAppVersion", "deployment.create">>
          /\ UNCHANGED envBuildSid
       \/ /\ envBuildSid' = newBuild[1].sid
          /\ calls' = calls \o <<"updateAppVersion", "deployment.create">>
          /\ pc' = "getAccount"
          /\ err' = ""
    /\ UNCHANGED <<argv, nextVersion, opts, credentials, runtime, routeCollision, bundleVersion,
                   sourceMapVersion, buildData, newBuild, result>>
    /\ UNCHANGED <<environment, builds, versions, deploys, deployed, vpVars, vfVars, gaVars,
                   foundVars>>

\* create the deployment of the new build, then updateAppVersion(nextVersion)
DeploymentCreate ==
    /\ pc = "deploymentCreate"
    /\ \/ /\ Throw("RemoteError: deployment.create")
          /\ calls' = Append(calls, "deployment.create")
          /\ UNCHANGED <<envBuildSid, appVersion>>
       \/ /\ envBuildSid' = newBuild[1].sid
          /\ appVersion' = nextVersion
          /\ calls' = calls \o <<"deployment.create", "updateAppVersion">>
          /\ pc' = "getAccount"
          /\ err' = ""
    /\ UNCHANGED <<argv, nextVersion, opts, credentials, runtime, routeCollision, bundleVersion,
                   sourceMapVersion, buildData, newBuild, result>>
    /\ UNCHANGED <<environment, builds, versions, deploys, deployed, vpVars, vfVars, gaVars,
                   foundVars>>

\* the completion that returns its DeployResult although the account lookup failed
GetAccountFailureSwallowed ==
    /\ pc = "getAccount"
    /\ calls' = calls \o (IF Len(AccountLookup(runtime, credentials)) = 1
                          THEN <<"account.get">> ELSE <<>>)
    /\ result' = <<[serviceSid |-> runtime.service.sid,
                    accountSid |-> runtime.service.account_sid,
                    environmentSid |-> runtime.environment[1].sid,
                    domainName |-> runtime.environment[1].domain_name,
                    isPublic |-> opts.isPublic,
                    nextVersion |-> nextVersion,
                    pluginUrl |-> pluginUrl]>>
    /\ pc' = "done"
    /\ err' \in {"", "RemoteError: account.get"}
    /\ err' = "" \/ Len(AccountLookup(runtime, credentials)) = 1
    /\ UNCHANGED <<argv, nextVersion, opts, credentials, runtime, routeCollision, bundleVersion,
                   sourceMapVersion, buildData, newBuild>>
    /\ UNCHANGED <<remoteVars, localUnchanged>>

\* 10. _getAccount, the success notice and the DeployResult
GetAccount ==
    /\ pc = "getAccount"
    /\ LET finished ==
               /\ result' = <<[serviceSid |-> runtime.service.sid,
                               accountSid |-> runtime.service.account_sid,
                               environmentSid |-> runtime.environment[1].sid,
                               domainName |-> runtime.environment[1].domain_name,
                               isPublic |-> opts.isPublic,
                               nextVersion |-> nextVersion,
                               pluginUrl |-> pluginUrl]>>
               /\ pc' = "done"
               /\ err' = ""
       IN  IF Len(AccountLookup(runtime, credentials)) = 1
           THEN /\ calls' = Append(calls, "account.get")
                /\ \/ /\ Throw("RemoteError: account.get")
                      /\ UNCHANGED result
                   \/ finished
           ELSE /\ UNCHANGED calls
                /\ finished
    /\ UNCHANGED <<argv, nextVersion, opts, credentials, runtime, routeCollision, bundleVersion,
                   sourceMapVersion, buildData, newBuild>>
    /\ UNCHANGED <<remoteVars, localUnchanged>>

\* the promise of deploy settles; the next invocation starts from nothing
Return ==
    /\ pc \in {"done", "aborted"}
    /\ deploys' = deploys + 1
    /\ deployed' = IF pc = "done" THEN deployed \cup {result[1].nextVersion} ELSE deployed
    /\ pc' = "idle"
    /\ argv' = <<>>
    /\ nextVersion' = JsUndefined
    /\ opts' = OptionsOf(<<>>)
    /\ credentials' = ""
    /\ runtime' = [service |-> TheService, environment |-> <<>>, build |-> <<>>]
    /\ routeCollision' = FALSE
    /\ bundleVersion' = <<>>
    /\ sourceMapVersion' = <<>>
    /\ buildData' = <<>>
    /\ newBuild' = <<>>
    /\ calls' = <<>>
    /\ err' = ""
    /\ result' = <<>>
    /\ answered' = <<>>
    /\ bundleExists' = <<>>
    /\ flagRequest' = <<>>
    /\ UNCHANGED <<remoteVars, appVersion, uiConfigs, vpVars, gaVars>>

\* every step of _doDeploy, and the end of an invocation
DoDeploy ==
    \/ CheckFilesExist
    \/ GetCredential
    \/ HasFlag
    \/ GetRuntime
    \/ GetFlexUIVersion
    \/ GetUIDependencies
    \/ VerifyFlexUI
    \/ Confirm
    \/ CheckCollision
    \/ UploadBundle
    \/ UploadSourceMap
    \/ RegisterSid
    \/ BuildCreate
    \/ DeploymentCreate
    \/ GetAccount
    \/ Return

Next ==
    \/ deploys < MaxDeploys /\ \E a \in DeployArgvPool : Deploy(a)
    \/ DoDeploy

Spec == Init /\ [][Next]_vars

(***************************************************************************)
(* Re-deployment: several invocations, one after the other, against the    *)
(* same service.                                                           *)
(***************************************************************************)
InitRedeploy ==
    /\ appVersion = InitialVersion
    /\ InitRemote(0)
    /\ deploys = 0
    /\ deployed = {}
    /\ IdleRun
    /\ IdleVerifyPath
    /\ AnyUIConfig
    /\ IdleGetAccount

NextRedeploy ==
    \/ deploys < MaxRedeploys /\ \E a \in RedeployArgvPool : Deploy(a)
    \/ DoDeploy

SpecRedeploy == InitRedeploy /\ [][NextRedeploy]_vars

(***************************************************************************)
(* Compatibility validation: an invocation in each single configuration of *)
(* the UNBUNDLED_REACT toggle, the Flex project and the local React.       *)
(***************************************************************************)
CompatibilityArgvPool == {<<"patch">>, <<"patch", "--pilot-plugins-api">>}

InitCompatibility ==
    /\ appVersion = InitialVersion
    /\ InitRemote(0)
    /\ deploys = 0
    /\ deployed = {}
    /\ IdleRun
    /\ IdleVerifyPath
    /\ \E c \in UIConfigPool :
          uiConfigs = [allowReact |-> {c.allowReact}, flexUI |-> {c.flexUI},
                       dependencies |-> {c.dependencies},
                       localReact |-> {c.localReact}, localReactDOM |-> {c.localReactDOM}]
    /\ answered = <<>>
    /\ IdleGetAccount

NextCompatibility ==
    \/ deploys < MaxDeploys /\ \E a \in CompatibilityArgvPool : Deploy(a)
    \/ DoDeploy

SpecCompatibility == InitCompatibility /\ [][NextCompatibility]_vars

(***************************************************************************)
(* The version resolver on its own, over every current version.            *)
(***************************************************************************)
CurrentVersionPool ==
    {FormatVersion(t) : t \in (0..MaxComp) \X (0..MaxComp) \X (0..MaxComp)}
        \cup {"latest"}

InitResolve ==
    /\ appVersion \in CurrentVersionPool
    /\ environment = <<TheEnvironment>>
    /\ builds = <<>> /\ envBuildSid = 0 /\ versions = <<>>
    /\ deploys = 0
    /\ deployed = {}
    /\ IdleRun
    /\ IdleVerifyPath
    /\ AnyUIConfig
    /\ IdleGetAccount

NextResolve == \E a \in ArgvPool : Deploy(a)

SpecResolve == InitResolve /\ [][NextResolve]_vars

(***************************************************************************)
(* _verifyPath on its own, over every base URL and build of the pools.     *)
(***************************************************************************)
BaseUrlPool == {AssetBaseUrl("1.2.4"), AssetBaseUrl("0.0.0")}

RecordPathPool ==
    {BundleUri(b) : b \in BaseUrlPool} \cup {SourceMapUri(b) : b \in BaseUrlPool}
        \cup {"/assets/other.js", AssetBaseUrl("1.2.4")}

InitVerifyPath ==
    /\ appVersion = InitialVersion
    /\ environment = <<TheEnvironment>>
    /\ builds = <<>> /\ envBuildSid = 0 /\ versions = <<>>
    /\ deploys = 0
    /\ deployed = {}
    /\ IdleRun
    /\ vpBaseUrl \in BaseUrlPool
    /\ \E ap \in SeqsUpTo(RecordPathPool, MaxRecords),
          fp \in SeqsUpTo(RecordPathPool, MaxRecords) :
          vpBuild = [asset_versions |-> Records(ap, 1),
                     function_versions |-> Records(fp, Len(ap) + 1),
                     dependencies |-> <<>>]
    /\ vpResult = "idle"
    /\ AnyUIConfig
    /\ IdleGetAccount

ApplyVerifyPath ==
    /\ vpResult = "idle"
    /\ vpResult' = IF VerifyPath(vpBaseUrl, vpBuild) THEN "true" ELSE "false"
    /\ UNCHANGED <<vpBaseUrl, vpBuild>>
    /\ UNCHANGED <<appVersion, remoteVars, deploys, deployed, runVars, vfVars, gaVars,
                   foundVars>>

NextVerifyPath == ApplyVerifyPath

SpecVerifyPath == InitVerifyPath /\ [][NextVerifyPath]_vars

(***************************************************************************)
(* _getAccount on its own, over runtimes and credentials of either account. *)
(***************************************************************************)
AccountSidPool == {"AC" \o t : t \in SidTails \cup OtherSidTails}

GetAccountCredentialPool ==
    {prefix \o t : prefix \in {"AC", "SK"}, t \in SidTails \cup OtherSidTails}

InitGetAccount ==
    /\ appVersion = InitialVersion
    /\ environment = <<TheEnvironment>>
    /\ builds = <<>> /\ envBuildSid = 0 /\ versions = <<>>
    /\ deploys = 0
    /\ deployed = {}
    /\ IdleRun
    /\ IdleVerifyPath
    /\ AnyUIConfig
    /\ \E sid \in AccountSidPool, env \in {<<>>, <<TheEnvironment>>},
          ap \in SeqsUpTo(ExistingPaths, 1), hasBuild \in BOOLEAN :
          /\ hasBuild \/ ap = <<>>
          /\ Len(env) = 1 \/ ~hasBuild
          /\ gaRuntime = [service |-> [TheService EXCEPT !.account_sid = sid],
                          environment |-> env,
                          build |-> IF hasBuild
                                    THEN <<[sid |-> 1, asset_versions |-> Records(ap, 1),
                                            function_versions |-> <<>>,
                                            dependencies |-> <<>>]>>
                                    ELSE <<>>]
    /\ gaCredentials \in GetAccountCredentialPool
    /\ gaFetched = <<>>
    /\ gaResult = "idle"

\* _getAccount: the sid of the account fetched, or of the account of the
\* service when no account is fetched
ApplyGetAccount ==
    /\ gaResult = "idle"
    /\ gaFetched' = gaFetched \o AccountLookup(gaRuntime, gaCredentials)
    /\ IF Len(AccountLookup(gaRuntime, gaCredentials)) = 1
       THEN \/ gaResult' = "RemoteError: account.get"
            \/ gaResult' = AccountLookup(gaRuntime, gaCredentials)[1]
       ELSE gaResult' = gaRuntime.service.account_sid
    /\ UNCHANGED <<gaRuntime, gaCredentials>>
    /\ UNCHANGED <<appVersion, remoteVars, deploys, deployed, runVars, vpVars, vfVars,
                   foundVars>>

NextGetAccount == ApplyGetAccount

SpecGetAccount == InitGetAccount /\ [][NextGetAccount]_vars

(***************************************************************************)
(* Properties.                                                             *)
(***************************************************************************)
\* the paths of every record of a build
ExistingPathsOf(build) == Paths(build.asset_versions) \cup Paths(build.function_versions)

\* C1: _verifyPath(baseUrl, build) returns true if and only if neither
\* {baseUrl}/bundle.js nor {baseUrl}/bundle.js.map is the path of a record of
\* build.asset_versions or build.function_versions; it returns true for a build
\* with both lists empty.
C1_VerifyPathIffPathsUnused ==
    vpResult # "idle" =>
        /\ vpResult = "true" <=>
               /\ (vpBaseUrl \o "/bundle.js") \notin ExistingPathsOf(vpBuild)
               /\ (vpBaseUrl \o "/bundle.js.map") \notin ExistingPathsOf(vpBuild)
        /\ (vpBuild.asset_versions = <<>> /\ vpBuild.function_versions = <<>>)
               => vpResult = "true"

\* _verifyPath has answered false for a build whose only record in the way is a
\* function version at the source-map path
C1_Witness ==
    /\ vpResult = "false"
    /\ Len(vpBuild.asset_versions) > 0
    /\ (vpBaseUrl \o "/bundle.js") \notin ExistingPathsOf(vpBuild)
    /\ (vpBaseUrl \o "/bundle.js.map") \notin Paths(vpBuild.asset_versions)
    /\ (vpBaseUrl \o "/bundle.js.map") \in Paths(vpBuild.function_versions)

\* the invocation has discovered a runtime whose build has a record at the
\* bundle path or the source-map path of the version being deployed
ExistingBuildCollides ==
    /\ Len(runtime.build) > 0
    /\ \/ (AssetBaseUrl(nextVersion) \o "/bundle.js") \in ExistingPathsOf(runtime.build[1])
       \/ (AssetBaseUrl(nextVersion) \o "/bundle.js.map") \in ExistingPathsOf(runtime.build[1])

\* the calls that change the service, the configuration or the package
SideEffectCalls ==
    {"upload", "registerSid", "build.create", "deployment.create", "updateAppVersion"}

\* the stages of _doDeploy after the collision check
StagesAfterCollisionCheck ==
    {"uploadBundle", "uploadSourceMap", "registerSid", "buildCreate",
     "deploymentCreate", "getAccount", "done"}

\* the errors of compatibility validation, the stage between runtime discovery
\* and the collision check
ValidationErrors ==
    {"RemoteError: getFlexUIVersion", "RemoteError: getUIDependencies",
     "PreconditionFailed: Flex UI version", "PreconditionFailed: React version not set",
     "UserRejected"}

\* C2: in a run of _doDeploy whose existing build has an asset version or a
\* function version at the target bundle or source-map path, with
\* options.overwrite false, no asset upload, registerSid, build creation,
\* deployment creation or updateAppVersion is ever issued, the run never gets
\* past the collision check, and it ends with the Conflict error naming the
\* plugin URL (unless compatibility validation has ended it before the check).
C2_CollisionWithoutOverwriteAborts ==
    (ExistingBuildCollides /\ ~opts.overwrite) =>
        /\ \A i \in 1..Len(calls) : calls[i] \notin SideEffectCalls
        /\ pc \notin StagesAfterCollisionCheck
        /\ routeCollision = FALSE
        /\ (pc = "aborted" /\ err \notin ValidationErrors) =>
               err = "Conflict: https://plugin-test.twil.io" \o AssetBaseUrl(nextVersion)
                         \o "/bundle.js"

\* a run has ended with Conflict on a build whose function version is in the way
C2_Witness ==
    /\ pc = "aborted"
    /\ err = "Conflict: https://plugin-test.twil.io/plugins/plugin-test/1.2.4/bundle.js"
    /\ ~opts.overwrite
    /\ ExistingBuildCollides
    /\ Paths(runtime.build[1].asset_versions) = {"/assets/other.js"}

\* the sids of the records of `records`, in order, without those at a path of `omit`
RECURSIVE SidsExcept(_, _)
SidsExcept(records, omit) ==
    IF records = <<>> THEN <<>>
    ELSE (IF Head(records).path \in omit THEN <<>> ELSE <<Head(records).sid>>)
             \o SidsExcept(Tail(records), omit)

\* the build the invocation found: an absent build counts as an empty one
ExistingBuild ==
    IF Len(runtime.build) > 0 THEN runtime.build[1]
    ELSE [asset_versions |-> <<>>, function_versions |-> <<>>, dependencies |-> <<>>]

\* the two paths the invocation uploads to
NewPaths ==
    {AssetBaseUrl(nextVersion) \o "/bundle.js", AssetBaseUrl(nextVersion) \o "/bundle.js.map"}

\* C3: in every run that reaches build creation the data submitted is:
\* FunctionVersions = the sids of the existing function versions in order;
\* Dependencies = the existing dependency list; AssetVersions = the sids of the
\* existing asset versions in order, without exactly those at the bundle or
\* source-map path when a collision was resolved under overwrite (all of them
\* otherwise), then the new bundle sid, then the new source-map sid.
C3_BuildComposition ==
    pc \in {"registerSid", "buildCreate", "deploymentCreate", "getAccount", "done"} =>
        /\ Len(buildData) = 1
        /\ buildData[1].FunctionVersions = SidsExcept(ExistingBuild.function_versions, {})
        /\ buildData[1].Dependencies = ExistingBuild.dependencies
        /\ buildData[1].AssetVersions =
               SidsExcept(ExistingBuild.asset_versions,
                          IF ExistingBuildCollides /\ opts.overwrite THEN NewPaths ELSE {})
                   \o <<bundleVersion[1].sid, sourceMapVersion[1].sid>>
        /\ bundleVersion[1].sid # sourceMapVersion[1].sid
        /\ bundleVersion[1].path = AssetBaseUrl(nextVersion) \o "/bundle.js"
        /\ sourceMapVersion[1].path = AssetBaseUrl(nextVersion) \o "/bundle.js.map"

\* a build has been created under overwrite from a build of two asset versions,
\* the first of them replaced and the second carried forward
C3_Witness ==
    /\ pc = "deploymentCreate"
    /\ opts.overwrite
    /\ Len(ExistingBuild.asset_versions) = 2
    /\ ExistingBuild.asset_versions[1].path \in NewPaths
    /\ ExistingBuild.asset_versions[2].path \notin NewPaths
    /\ Len(buildData[1].AssetVersions) = 3
    /\ ExistingBuild.dependencies # <<>>

\* no two entries of a list of paths are the same
PairwiseDistinct(paths) ==
    \A i, j \in 1..Len(paths) : i # j => paths[i] # paths[j]

\* the paths of the version records the composed build refers to: the asset
\* versions and function versions carried forward and the two uploaded
ComposedPaths ==
    [i \in 1..Len(buildData[1].AssetVersions) |-> versions[buildData[1].AssetVersions[i]]]
        \o [i \in 1..Len(buildData[1].FunctionVersions) |->
                versions[buildData[1].FunctionVersions[i]]]

\* the paths of the records of the existing build, asset versions first
ExistingPathList ==
    [i \in 1..Len(ExistingBuild.asset_versions) |-> ExistingBuild.asset_versions[i].path]
        \o [i \in 1..Len(ExistingBuild.function_versions) |->
                ExistingBuild.function_versions[i].path]

\* C4: after a collision resolved under overwrite = true, given an existing build
\* whose records have pairwise distinct paths, no two version records the new
\* build refers to (asset versions and function versions carried forward, and
\* the two uploaded) have the same path, whether an asset version or a function
\* version caused the collision.
C4_NoDuplicatePathsAfterOverwrite ==
    (/\ Len(buildData) = 1
     /\ ExistingBuildCollides
     /\ opts.overwrite
     /\ PairwiseDistinct(ExistingPathList))
        => PairwiseDistinct(ComposedPaths)

\* every collaborator error of a run, with the gates that stand before the
\* collision check: a missing bundle file, a refused pilot flag, a failed
\* compatibility validation
CollaboratorErrors ==
    ValidationErrors \cup
    {"PreconditionFailed: build file", "Forbidden: pilot",
     "RemoteError: getCredential", "RemoteError: getRuntime", "RemoteError: upload",
     "RemoteError: registerSid", "RemoteError: build.create",
     "RemoteError: deployment.create", "RemoteError: account.get"}

\* how many entries of `seq` are `x`
Count(seq, x) == Cardinality({i \in 1..Len(seq) : seq[i] = x})

\* the invocation has discovered a runtime with an environment and no build
FreshRuntime == Len(runtime.environment) = 1 /\ Len(runtime.build) = 0

\* C5: for a Runtime with an environment and no build, with overwrite = false,
\* _doDeploy fails only where a collaborator fails; the build submitted has
\* exactly the two asset-version sids (bundle, then source map), no function
\* version and no dependency; a run that succeeds has called the deployment
\* writer exactly once, and its DeployResult.nextVersion is the version the
\* resolver handed to _doDeploy.
C5_FirstDeployment ==
    (FreshRuntime /\ ~opts.overwrite) =>
        /\ pc = "aborted" => err \in CollaboratorErrors
        /\ Len(buildData) = 1 =>
               /\ buildData[1].AssetVersions = <<bundleVersion[1].sid, sourceMapVersion[1].sid>>
               /\ bundleVersion[1].path = AssetBaseUrl(nextVersion) \o "/bundle.js"
               /\ sourceMapVersion[1].path = AssetBaseUrl(nextVersion) \o "/bundle.js.map"
               /\ buildData[1].FunctionVersions = <<>>
               /\ buildData[1].Dependencies = <<>>
        /\ pc = "done" =>
               /\ Count(calls, "build.create") = 1
               /\ Count(calls, "deployment.create") = 1
               /\ Count(calls, "upload") = 2
               /\ Len(result) = 1
               /\ result[1].nextVersion = nextVersion

\* a first deployment has succeeded
C5_Witness ==
    /\ pc = "done"
    /\ FreshRuntime
    /\ ~opts.overwrite
    /\ argv = <<"patch">>
    /\ result[1].nextVersion = "1.2.4"
    /\ Len(builds) = 1
    /\ envBuildSid = 1

\* the errors of the stages of _doDeploy before the collision check
ErrorsBeforeCollisionCheck ==
    ValidationErrors \cup
    {"PreconditionFailed: build file", "Forbidden: pilot", "RemoteError: getCredential",
     "RemoteError: getRuntime", "PreconditionFailed: no environment"}

\* C6: once an invocation for version v has returned its DeployResult, every
\* later invocation that resolves to the same v with overwrite = false and
\* disallowVersioning = false issues no upload (nor any later call), never gets
\* past the collision check, and ends with Conflict unless a stage before the
\* collision check has ended it; and the build of the environment still holds
\* asset versions at both paths of v.
C6_RedeployWithoutOverwriteRejected ==
    \A v \in deployed :
        /\ envBuildSid > 0
        /\ {AssetBaseUrl(v) \o "/bundle.js", AssetBaseUrl(v) \o "/bundle.js.map"}
               \subseteq Paths(builds[envBuildSid].asset_versions)
        /\ (pc # "idle" /\ nextVersion = v /\ ~opts.overwrite /\ ~opts.disallowVersioning) =>
               /\ \A i \in 1..Len(calls) : calls[i] \notin SideEffectCalls
               /\ pc \notin StagesAfterCollisionCheck
               /\ (pc = "aborted" /\ err \notin ErrorsBeforeCollisionCheck) =>
                      err = "Conflict: https://plugin-test.twil.io" \o AssetBaseUrl(v)
                                \o "/bundle.js"

\* version 1.2.4 was deployed, another version was deployed after it, and a third
\* invocation for 1.2.4 without overwrite has ended with Conflict
C6_Witness ==
    /\ deployed = {"1.2.4", "0.0.0"}
    /\ argv = <<"version", "1.2.4">>
    /\ deploys = 2
    /\ envBuildSid = 2
    /\ Len(builds[2].asset_versions) = 4
    /\ builds[2].asset_versions[1].path = "/plugins/plugin-test/1.2.4/bundle.js"
    /\ pc = "aborted"
    /\ err = "Conflict: https://plugin-test.twil.io/plugins/plugin-test/1.2.4/bundle.js"

\* deploy has been called and has either entered _doDeploy or thrown
Resolved == pc # "idle"

\* --disallow-versioning is among the arguments
DisallowVersioningSet == \E i \in 1..Len(argv) : argv[i] = "--disallow-versioning"

\* the bump directive, "" when there is none
Bump == IF Len(argv) > 0 THEN argv[1] ELSE ""

\* C7: with disallowVersioning unset, for every current version a.b.c of
\* non-negative integers, deploy resolves major to (a+1).0.0, minor to a.(b+1).0
\* and patch to a.b.(c+1) and enters _doDeploy with exactly that string; for
\* bump version with an explicit literal, nextVersion is the literal unchanged.
C7_SemverIncrement ==
    (Resolved /\ ~DisallowVersioningSet) =>
        /\ \A a, b, c \in 0..MaxComp :
               appVersion = ToString(a) \o "." \o ToString(b) \o "." \o ToString(c) =>
                   /\ Bump = "major" =>
                          (pc = "checkFilesExist" /\ nextVersion = ToString(a + 1) \o ".0.0")
                   /\ Bump = "minor" =>
                          (pc = "checkFilesExist"
                           /\ nextVersion = ToString(a) \o "." \o ToString(b + 1) \o ".0")
                   /\ Bump = "patch" =>
                          (pc = "checkFilesExist"
                           /\ nextVersion = ToString(a) \o "." \o ToString(b) \o "."
                                                \o ToString(c + 1))
        /\ (Bump = "version" /\ Len(argv) >= 2 /\ argv[2] # "") =>
               (pc = "checkFilesExist" /\ nextVersion = argv[2])

\* deploy minor at version 1.3.2 has entered _doDeploy with 1.4.0
C7_Witness ==
    /\ pc = "checkFilesExist"
    /\ argv = <<"minor">>
    /\ appVersion = "1.3.2"
    /\ nextVersion = "1.4.0"

\* C8: called with bump directive overwrite (disallowVersioning unset), deploy
\* does not fail with InvalidArgument; it enters _doDeploy with the current
\* application version as nextVersion and with overwrite = true, whether or not
\* --overwrite was given.
C8_OverwriteDirective ==
    (Resolved /\ ~DisallowVersioningSet /\ Bump = "overwrite") =>
        /\ pc = "checkFilesExist"
        /\ err = ""
        /\ nextVersion = appVersion
        /\ opts.overwrite

\* C9: whenever --disallow-versioning is present, for every bump directive
\* (valid, unknown or absent) and every explicit version argument, deploy never
\* raises InvalidArgument and enters _doDeploy with nextVersion = "0.0.0" and
\* overwrite = true.
C9_DisallowVersioning ==
    (Resolved /\ DisallowVersioningSet) =>
        /\ pc = "checkFilesExist"
        /\ err = ""
        /\ nextVersion = "0.0.0"
        /\ opts.overwrite
        /\ opts.disallowVersioning

\* deploy with an unknown directive and --disallow-versioning, without
\* --overwrite, has entered _doDeploy
C9_Witness ==
    /\ pc = "checkFilesExist"
    /\ argv = <<"bogus", "--disallow-versioning">>
    /\ nextVersion = "0.0.0"
    /\ opts.overwrite

\* the bump directives of the specification of the resolver
DirectivesOfSpec == {"major", "minor", "patch", "version", "overwrite"}

\* C10: with disallowVersioning unset, deploy fails with an InvalidArgument
\* error when the bump directive is not an allowed directive and when it is
\* version without an explicit version; _doDeploy is then never entered: no
\* filesystem check, credential fetch or remote call is made, and nothing is
\* read, uploaded, built or returned.
C10_InvalidArgument ==
    /\ (/\ Resolved
        /\ ~DisallowVersioningSet
        /\ \/ Bump \notin DirectivesOfSpec
           \/ Bump = "version" /\ (Len(argv) < 2 \/ argv[2] = ""))
          => (pc = "aborted"
              /\ err \in {"InvalidArgument: bump", "InvalidArgument: version"})
    /\ err \in {"InvalidArgument: bump", "InvalidArgument: version"} =>
          /\ pc = "aborted"
          /\ calls = <<>>
          /\ credentials = ""
          /\ Len(runtime.environment) = 0
          /\ Len(bundleVersion) = 0 /\ Len(sourceMapVersion) = 0
          /\ Len(newBuild) = 0 /\ Len(result) = 0

\* deploy version with an empty version argument has thrown
C10_Witness ==
    /\ pc = "aborted"
    /\ argv = <<"version", "">>
    /\ err = "InvalidArgument: version"
    /\ calls = <<>>

\* the one configuration the invocation runs in, where the initial state fixes it
UIConfigKnown == Cardinality(UIConfigsOf(uiConfigs)) = 1

TheUIConfig == (CHOOSE v \in UIConfigsOf(uiConfigs) : TRUE).config

\* 1.19.0 satisfies the declared range, or the coerced host version is >= 1.19.0
HostSupports(flexUI) ==
    \/ Satisfies("1.19.0", flexUI)
    \/ Coerce(flexUI) # JsNull /\ Satisfies(Coerce(flexUI), ">=1.19.0")

\* both react and react-dom are declared by the Flex project
BothDeclared(dependencies) ==
    dependencies.react # JsUndefined /\ dependencies.reactDom # JsUndefined

\* the local react or react-dom does not satisfy its declared range
ReactMismatch(c) ==
    \/ ~Satisfies(c.localReact, c.dependencies.react)
    \/ ~Satisfies(c.localReactDOM, c.dependencies.reactDom)

\* no upload, registration, build, deployment or version persistence so far
NoSideEffectCall == \A i \in 1..Len(calls) : calls[i] \notin SideEffectCalls

\* C11: with allowReact = false, _verifyFlexUIConfiguration returns normally,
\* without prompting and without raising, whatever the host UI version (an
\* unparseable one, one below 1.19.0) and the dependency map (one lacking react
\* or react-dom) are: the run goes on to the collision check.
C11_AllowReactFalseIsNoOp ==
    [][(pc = "verifyFlexUIConfiguration" /\ UIConfigKnown /\ ~TheUIConfig.allowReact) =>
           /\ pc' = "checkCollision"
           /\ err' = ""
           /\ calls' = calls
           /\ answered' = <<>>]_vars

\* the validator has returned on an unparseable host version and no React declared
C11_Witness ==
    /\ pc = "checkCollision"
    /\ UIConfigKnown
    /\ ~TheUIConfig.allowReact
    /\ TheUIConfig.flexUI = "latest"
    /\ TheUIConfig.dependencies.react = JsUndefined
    /\ "confirm" \notin {calls[i] : i \in 1..Len(calls)}

\* C12: with allowReact = true and a host UI version that does not support
\* unbundled React (1.19.0 does not satisfy it and its coerced version is not
\* >= 1.19.0), _verifyFlexUIConfiguration fails with PreconditionFailed without
\* prompting, whatever the dependency map and the local React versions are, and
\* the run issues no upload and no later stage.
C12_UnsupportedHostFails ==
    /\ [][(/\ pc = "verifyFlexUIConfiguration"
           /\ UIConfigKnown
           /\ TheUIConfig.allowReact
           /\ ~HostSupports(TheUIConfig.flexUI)) =>
              /\ pc' = "aborted"
              /\ err' = "PreconditionFailed: Flex UI version"
              /\ calls' = calls
              /\ answered' = <<>>]_vars
    /\ [](err = "PreconditionFailed: Flex UI version" =>
              /\ pc \in {"aborted", "idle"}
              /\ NoSideEffectCall
              /\ "confirm" \notin {calls[i] : i \in 1..Len(calls)}
              /\ Len(bundleVersion) = 0 /\ Len(newBuild) = 0)

\* host 1.18.0 has failed a run whose React versions alone would have prompted
C12_Witness ==
    /\ pc = "aborted"
    /\ err = "PreconditionFailed: Flex UI version"
    /\ UIConfigKnown
    /\ TheUIConfig.allowReact
    /\ TheUIConfig.flexUI = "1.18.0"
    /\ BothDeclared(TheUIConfig.dependencies)
    /\ ReactMismatch(TheUIConfig)

\* C13: with allowReact = true, a supporting host UI version and both react and
\* react-dom declared, the prompt is issued exactly when the local react or
\* react-dom does not satisfy its declared range, its default answer being no;
\* while the prompt is unanswered no upload, registration, build or deployment
\* call has been issued; a negative or default answer ends the run with
\* UserRejected and none of those calls; a positive answer takes the run to the
\* collision check.
C13_PromptOnReactMismatch ==
    /\ [][(/\ pc = "verifyFlexUIConfiguration"
           /\ UIConfigKnown
           /\ TheUIConfig.allowReact
           /\ HostSupports(TheUIConfig.flexUI)
           /\ BothDeclared(TheUIConfig.dependencies)) =>
              IF ReactMismatch(TheUIConfig)
              THEN pc' = "confirm" /\ calls' = Append(calls, "confirm") /\ err' = ""
              ELSE pc' = "checkCollision" /\ calls' = calls /\ err' = ""]_vars
    /\ [][pc = "confirm" =>
              /\ Len(answered') = 1
              /\ calls' = calls
              /\ UNCHANGED <<remoteVars, appVersion>>
              /\ IF answered'[1] = "Y"
                 THEN pc' = "checkCollision" /\ err' = ""
                 ELSE pc' = "aborted" /\ err' = "UserRejected"]_vars
    /\ []((pc = "confirm" \/ err = "UserRejected") =>
              /\ NoSideEffectCall
              /\ Count(calls, "confirm") = 1
              /\ Len(bundleVersion) = 0 /\ Len(newBuild) = 0)
    /\ [](err = "UserRejected" => pc \in {"aborted", "idle"})

\* the prompt was left at its default answer after react-dom alone mismatched
C13_Witness ==
    /\ pc = "aborted"
    /\ err = "UserRejected"
    /\ answered = <<"">>
    /\ UIConfigKnown
    /\ Satisfies(TheUIConfig.localReact, TheUIConfig.dependencies.react)
    /\ ~Satisfies(TheUIConfig.localReactDOM, TheUIConfig.dependencies.reactDom)

\* the names of the calls issued so far by the invocation in progress
Called == {calls[i] : i \in 1..Len(calls)}

\* the calls that go to the network
NetworkCalls ==
    {"GET /Plugins", "getRuntime", "getFlexUIVersion", "getUIDependencies", "upload",
     "registerSid", "build.create", "deployment.create", "account.get"}

\* C14: when the local bundle file does not exist, _doDeploy fails with the
\* PreconditionFailed (run build first) error before any credential fetch and
\* before any network call, whatever the options are.
C14_MissingBundleFailsFirst ==
    /\ [][pc = "checkFilesExist" =>
              /\ Len(bundleExists') = 1
              /\ IF bundleExists'[1]
                 THEN pc' = "getCredential" /\ err' = ""
                 ELSE pc' = "aborted" /\ err' = "PreconditionFailed: build file"]_vars
    /\ [](bundleExists = <<FALSE>> =>
              /\ pc = "aborted"
              /\ err = "PreconditionFailed: build file"
              /\ calls = <<"checkFilesExist">>
              /\ credentials = ""
              /\ Called \cap NetworkCalls = {}
              /\ Len(bundleVersion) = 0 /\ Len(newBuild) = 0)

\* a pilot, public run has ended on the missing bundle
C14_Witness ==
    /\ bundleExists = <<FALSE>>
    /\ pc = "aborted"
    /\ opts.isPluginsPilot
    /\ opts.isPublic

\* C15: the feature-flag endpoint is queried only when isPluginsPilot is true;
\* hasFlag issues exactly one GET, yields true when it resolves and false when it
\* is rejected, and never raises; with isPluginsPilot true, a false hasFlag ends
\* _doDeploy with the Forbidden error before runtime discovery and before any
\* upload, and a true one takes the run on to runtime discovery.
C15_PilotGate ==
    /\ [][(pc = "getCredential" /\ pc' # "aborted") =>
              pc' = IF opts.isPluginsPilot THEN "hasFlag" ELSE "getRuntime"]_vars
    /\ [][pc = "hasFlag" =>
              /\ calls' = Append(calls, "GET /Plugins")
              /\ Len(flagRequest') = 1
              /\ IF flagRequest'[1] = "resolved"
                 THEN pc' = "getRuntime" /\ err' = ""
                 ELSE pc' = "aborted" /\ err' = "Forbidden: pilot"]_vars
    /\ []("GET /Plugins" \in Called => opts.isPluginsPilot /\ Count(calls, "GET /Plugins") = 1)
    /\ [](~opts.isPluginsPilot => flagRequest = <<>> /\ err # "Forbidden: pilot")
    /\ []("getRuntime" \in Called /\ opts.isPluginsPilot => flagRequest = <<"resolved">>)
    /\ [](err = "Forbidden: pilot" =>
              /\ pc = "aborted"
              /\ flagRequest = <<"rejected">>
              /\ calls = <<"checkFilesExist", "getCredential", "GET /Plugins">>
              /\ Len(runtime.environment) = 0
              /\ Len(bundleVersion) = 0)

\* the one GET of a pilot run was rejected and the run ended with Forbidden
C15_Witness ==
    /\ pc = "aborted"
    /\ err = "Forbidden: pilot"
    /\ opts.isPluginsPilot
    /\ flagRequest = <<"rejected">>
    /\ Count(calls, "GET /Plugins") = 1

\* C16: when runtime discovery returns a Runtime with no environment, _doDeploy
\* aborts with PreconditionFailed right after discovery: no configuration read,
\* compatibility validation, collision check, upload, registration, build
\* creation, deployment creation or version persistence happens in that run.
C16_NoEnvironmentAborts ==
    /\ [][(pc = "getRuntime" /\ err' # "RemoteError: getRuntime" /\ Len(environment) = 0) =>
              /\ pc' = "aborted"
              /\ err' = "PreconditionFailed: no environment"
              /\ calls' = Append(calls, "getRuntime")
              /\ Len(runtime'.environment) = 0
              /\ UNCHANGED <<remoteVars, appVersion>>]_vars
    /\ [](err = "PreconditionFailed: no environment" =>
              /\ pc = "aborted"
              /\ calls[Len(calls)] = "getRuntime"
              /\ Called \cap ({"getFlexUIVersion", "getUIDependencies", "confirm"}
                                 \cup SideEffectCalls) = {}
              /\ answered = <<>>
              /\ routeCollision = FALSE
              /\ Len(bundleVersion) = 0 /\ Len(buildData) = 0 /\ Len(newBuild) = 0)
    /\ [](pc \in {"getFlexUIVersion", "getUIDependencies", "verifyFlexUIConfiguration",
                   "confirm", "checkCollision"} \cup StagesAfterCollisionCheck =>
              Len(runtime.environment) = 1)

\* discovery has returned a service without environment and the run has ended
C16_Witness ==
    /\ pc = "aborted"
    /\ err = "PreconditionFailed: no environment"
    /\ Len(environment) = 0
    /\ Len(runtime.environment) = 0
    /\ "getRuntime" \in Called

\* `longer` begins with `shorter`
IsPrefix(shorter, longer) ==
    /\ Len(shorter) <= Len(longer)
    /\ \A i \in 1..Len(shorter) : longer[i] = shorter[i]

\* C17: updateAppVersion is called at most once in an invocation, only after
\* the build creation and the deployment creation of that invocation have both
\* succeeded, and with the resolved nextVersion; a run that aborts at or before
\* deployment creation leaves the local version as it was, and no remote side
\* effect already made (an uploaded asset version, a created build, the build
\* the environment runs) is taken back.
C17_VersionPersistedAfterDeployment ==
    /\ [](Count(calls, "updateAppVersion") <= 1)
    /\ []("updateAppVersion" \in Called =>
              /\ calls[Len(calls)] = "updateAppVersion" \/ calls[Len(calls)] = "account.get"
              /\ Count(calls, "build.create") = 1
              /\ Count(calls, "deployment.create") = 1
              /\ \E i \in 1..Len(calls) :
                     /\ calls[i] = "build.create"
                     /\ calls[i + 1] = "deployment.create"
                     /\ calls[i + 2] = "updateAppVersion"
              /\ Len(newBuild) = 1
              /\ envBuildSid = newBuild[1].sid
              /\ appVersion = nextVersion)
    /\ [][appVersion' # appVersion =>
              /\ pc = "deploymentCreate" /\ pc' = "getAccount"
              /\ appVersion' = nextVersion
              /\ envBuildSid' = newBuild[1].sid
              /\ calls' = calls \o <<"deployment.create", "updateAppVersion">>]_vars
    /\ [][(pc' = "aborted" /\ pc # "getAccount") =>
              /\ appVersion' = appVersion
              /\ "updateAppVersion" \notin {calls'[i] : i \in 1..Len(calls')}]_vars
    /\ [][/\ IsPrefix(versions, versions')
          /\ IsPrefix(builds, builds')
          /\ environment' = environment
          /\ envBuildSid' # envBuildSid => (pc = "deploymentCreate" /\ pc' = "getAccount")]_vars
    /\ []((pc = "aborted" /\ Len(bundleVersion) = 1) =>
              Len(versions) >= bundleVersion[1].sid /\ versions[bundleVersion[1].sid] = bundleUri)
    /\ []((pc = "aborted" /\ Len(newBuild) = 1) =>
              Len(builds) >= newBuild[1].sid /\ builds[newBuild[1].sid] = newBuild[1])

\* deployment creation has failed after the uploads and the build: the version
\* is not persisted, the asset versions and the build remain
C17_Witness ==
    /\ pc = "aborted"
    /\ err = "RemoteError: deployment.create"
    /\ appVersion # nextVersion
    /\ "updateAppVersion" \notin Called
    /\ Len(newBuild) = 1
    /\ builds[newBuild[1].sid] = newBuild[1]
    /\ envBuildSid # newBuild[1].sid
    /\ versions[sourceMapVersion[1].sid] = sourceMapUri

\* C18: _getAccount looks the account up exactly when the credential's username
\* starts with AC; for any other credential it makes no call and returns the
\* account sid of the runtime's service; the account it looks up is the one
\* named by runtime.service.account_sid, whether or not that is the
\* credential's username.
C18_AccountLookup ==
    gaResult # "idle" =>
        /\ Len(gaFetched) = 1 <=> StartsWith(gaCredentials, "AC")
        /\ Len(gaFetched) <= 1
        /\ ~StartsWith(gaCredentials, "AC") =>
               gaFetched = <<>> /\ gaResult = gaRuntime.service.account_sid
        /\ StartsWith(gaCredentials, "AC") =>
               /\ gaFetched = <<gaRuntime.service.account_sid>>
               /\ gaResult \in {gaRuntime.service.account_sid, "RemoteError: account.get"}

\* C18 as stated: the account looked up is the one the credential's username
\* names.
C18_LookupOfCredentialPrincipal ==
    gaResult # "idle" =>
        /\ Len(gaFetched) = 1 <=> StartsWith(gaCredentials, "AC")
        /\ ~StartsWith(gaCredentials, "AC") =>
               gaFetched = <<>> /\ gaResult = gaRuntime.service.account_sid
        /\ StartsWith(gaCredentials, "AC") => gaFetched = <<gaCredentials>>

\* an account credential has looked up the account of a service of another account
C18_Witness ==
    /\ gaResult # "idle"
    /\ StartsWith(gaCredentials, "AC")
    /\ gaFetched = <<gaRuntime.service.account_sid>>
    /\ gaRuntime.service.account_sid # gaCredentials

\* the calls that follow the two uploads
CallsAfterUploads == {"registerSid", "build.create", "deployment.create", "updateAppVersion"}

\* the sids of the records of the build the runtime was discovered with
DiscoveredSids ==
    IF Len(runtime.build) = 0 THEN {}
    ELSE {runtime.build[1].asset_versions[i].sid :
              i \in 1..Len(runtime.build[1].asset_versions)}

\* C19: when the bundle upload or the source-map upload fails, the run aborts
\* before the build data is composed: no registerSid, build creation, deployment
\* creation or version persistence is issued, so no build is created on the sid
\* of an upload that did not succeed; the build data submitted names, after the
\* asset versions carried forward from the existing build, exactly the two sids
\* returned by the two successful uploads of the same run.
C19_FailedUploadAbortsBeforeBuild ==
    /\ [][(pc \in {"uploadBundle", "uploadSourceMap"} /\ versions' = versions) =>
              /\ pc' = "aborted"
              /\ err' = "RemoteError: upload"
              /\ buildData' = <<>>
              /\ UNCHANGED <<bundleVersion, sourceMapVersion, remoteVars, appVersion>>]_vars
    /\ [](err = "RemoteError: upload" =>
              /\ pc = "aborted"
              /\ calls[Len(calls)] = "upload"
              /\ Called \cap CallsAfterUploads = {}
              /\ Len(sourceMapVersion) = 0
              /\ Len(buildData) = 0 /\ Len(newBuild) = 0)
    /\ [](Called \cap CallsAfterUploads # {} =>
              /\ Count(calls, "upload") = 2
              /\ Len(bundleVersion) = 1 /\ Len(sourceMapVersion) = 1
              /\ Len(buildData) = 1)
    /\ [](Len(buildData) = 1 =>
              LET assets == buildData[1].AssetVersions
                  n == Len(assets)
              IN  /\ Len(bundleVersion) = 1 /\ Len(sourceMapVersion) = 1
                  /\ n >= 2
                  /\ assets[n - 1] = bundleVersion[1].sid
                  /\ assets[n] = sourceMapVersion[1].sid
                  /\ bundleVersion[1].sid \in 1..Len(versions)
                  /\ sourceMapVersion[1].sid \in 1..Len(versions)
                  /\ versions[bundleVersion[1].sid] = bundleUri
                  /\ versions[sourceMapVersion[1].sid] = sourceMapUri
                  /\ \A i \in 1..(n - 2) : assets[i] \in DiscoveredSids)
    /\ [](Len(newBuild) = 1 =>
              /\ Len(buildData) = 1
              /\ Sids(newBuild[1].asset_versions) = buildData[1].AssetVersions
              /\ \A i \in 1..Len(newBuild[1].asset_versions) :
                     newBuild[1].asset_versions[i].sid \in 1..Len(versions))

\* the source-map upload has failed after the bundle upload succeeded
C19_Witness ==
    /\ pc = "aborted"
    /\ err = "RemoteError: upload"
    /\ Len(bundleVersion) = 1
    /\ versions[bundleVersion[1].sid] = bundleUri
    /\ Count(calls, "upload") = 2
    /\ Len(buildData) = 0

\* the calls of one invocation in the order _doDeploy issues them; the collision
\* check, which issues no call, lies between the prompt and the first upload
StageCalls ==
    <<"checkFilesExist", "getCredential", "GET /Plugins", "getRuntime",
      "getFlexUIVersion", "getUIDependencies", "confirm", "upload", "upload",
      "registerSid", "build.create", "deployment.create", "updateAppVersion", "account.get">>

\* the places of _doDeploy in the order they are passed
StageOrder ==
    <<"idle", "checkFilesExist", "getCredential", "hasFlag", "getRuntime",
      "getFlexUIVersion", "getUIDependencies", "verifyFlexUIConfiguration", "confirm",
      "checkCollision", "uploadBundle", "uploadSourceMap", "registerSid", "buildCreate",
      "deploymentCreate", "getAccount", "done">>

\* the place of `stage` in StageOrder
Rank(stage) == CHOOSE i \in 1..Len(StageOrder) : StageOrder[i] = stage

\* `log` is obtained from `order` by leaving entries out
RECURSIVE IsSubsequence(_, _)
IsSubsequence(log, order) ==
    IF log = <<>> THEN TRUE
    ELSE IF order = <<>> THEN FALSE
    ELSE IF Head(log) = Head(order) THEN IsSubsequence(Tail(log), Tail(order))
    ELSE IsSubsequence(log, Tail(order))

\* the call whose rejection is reported by `e`
FailedCall(e) ==
    CASE e = "RemoteError: getCredential" -> "getCredential"
      [] e = "Forbidden: pilot" -> "GET /Plugins"
      [] e = "RemoteError: getRuntime" -> "getRuntime"
      [] e = "PreconditionFailed: no environment" -> "getRuntime"
      [] e = "RemoteError: getFlexUIVersion" -> "getFlexUIVersion"
      [] e = "RemoteError: getUIDependencies" -> "getUIDependencies"
      [] e = "UserRejected" -> "confirm"
      [] e = "RemoteError: upload" -> "upload"
      [] e = "RemoteError: registerSid" -> "registerSid"
      [] e = "RemoteError: build.create" -> "build.create"
      [] e = "RemoteError: deployment.create" -> "deployment.create"
      [] e = "RemoteError: account.get" -> "account.get"
      [] OTHER -> ""

\* C20: in every run of _doDeploy the stages come in the order runtime
\* discovery, compatibility validation, collision check, bundle upload,
\* source-map upload, registerSid, build creation, deployment creation, version
\* persistence; each is issued at most once in an invocation, no stage is tried
\* again after it has failed and the failed stage is the last one issued; the
\* deployment is created with the sid of the build created in that invocation.
C20_StageOrder ==
    /\ [](IsSubsequence(calls, StageCalls))
    /\ [][pc' \notin {"aborted", "idle"} => Rank(pc') > Rank(pc)]_vars
    /\ [][pc = "aborted" => (pc' = "idle" /\ UNCHANGED <<remoteVars, appVersion>>)]_vars
    /\ [][pc' = "aborted" =>
              \/ calls' = calls
              \/ Len(calls') = Len(calls) + 1 /\ IsPrefix(calls, calls')]_vars
    /\ []((pc = "aborted" /\ FailedCall(err) # "") => calls[Len(calls)] = FailedCall(err))
    /\ [][envBuildSid' # envBuildSid =>
              /\ pc = "deploymentCreate"
              /\ Len(newBuild) = 1
              /\ envBuildSid' = newBuild[1].sid
              /\ "build.create" \in Called
              /\ newBuild[1].sid = Len(builds)
              /\ builds[Len(builds)] = newBuild[1]]_vars
    /\ []("deployment.create" \in Called =>
              /\ Len(newBuild) = 1
              /\ Count(calls, "build.create") = 1)

\* a run has passed every stage once, in order, and deployed its own build
C20_Witness ==
    /\ pc = "done"
    /\ calls = <<"checkFilesExist", "getCredential", "getRuntime", "getFlexUIVersion",
                 "getUIDependencies", "upload", "upload", "registerSid", "build.create",
                 "deployment.create", "updateAppVersion">>
    /\ envBuildSid = newBuild[1].sid
    /\ Len(runtime.build) = 1
    /\ runtime.build[1].sid # newBuild[1].sid

\* C21: the account lookup of the completion is the only collaborator call
\* issued after deployment creation.  With a credential whose username starts
\* with AC, a failed lookup ends _doDeploy with an error and without a
\* DeployResult, although the deployment has been created and the local version
\* persisted.  With any other credential, every run whose deployment creation
\* has succeeded returns a DeployResult whose accountSid is
\* runtime.service.account_sid, without a lookup.
C21_CompletionAccountLookup ==
    /\ [](\A i \in 1..Len(calls) :
              calls[i] = "deployment.create" =>
                  /\ \A j \in (i + 1)..Len(calls) : calls[j] \in {"updateAppVersion", "account.get"}
                  /\ Called \cap NetworkCalls \cap {calls[j] : j \in (i + 1)..Len(calls)}
                         \subseteq {"account.get"})
    /\ [](Count(calls, "account.get") <= 1)
    /\ []("account.get" \in Called => StartsWith(credentials, "AC"))
    /\ [][pc = "getAccount" =>
              /\ UNCHANGED <<remoteVars, appVersion>>
              /\ IF StartsWith(credentials, "AC")
                 THEN /\ calls' = Append(calls, "account.get")
                      /\ \/ /\ pc' = "aborted"
                            /\ err' = "RemoteError: account.get"
                            /\ result' = <<>>
                         \/ /\ pc' = "done" /\ err' = "" /\ Len(result') = 1
                 ELSE /\ calls' = calls
                      /\ pc' = "done"
                      /\ err' = ""
                      /\ Len(result') = 1
                      /\ result'[1].accountSid = runtime.service.account_sid]_vars
    /\ [](err = "RemoteError: account.get" =>
              /\ pc = "aborted"
              /\ result = <<>>
              /\ StartsWith(credentials, "AC")
              /\ calls[Len(calls)] = "account.get"
              /\ "updateAppVersion" \in Called
              /\ Len(newBuild) = 1
              /\ envBuildSid = newBuild[1].sid
              /\ appVersion = nextVersion)
    /\ [](Len(result) = 1 <=> pc = "done")
    /\ [](pc = "done" =>
              /\ result[1].accountSid = runtime.service.account_sid
              /\ result[1].nextVersion = nextVersion
              /\ envBuildSid = newBuild[1].sid)

\* the lookup has failed after the deployment was created and the version persisted
C21_Witness ==
    /\ pc = "aborted"
    /\ err = "RemoteError: account.get"
    /\ StartsWith(credentials, "AC")
    /\ result = <<>>
    /\ envBuildSid = newBuild[1].sid
    /\ appVersion = nextVersion
    /\ appVersion # InitialVersion
====
